---- MODULE Spec2Model ----
(***************************************************************************)
(* Reference Tone Scheduler of physics_of_dissonance.                      *)
(*                                                                         *)
(* Two scheduler instances (the dyadic explorer, A, which carries an       *)
(* inline copy of the scheduler, and the triad explorer, B, which uses the *)
(* hook useReferenceTonePlayer) listen on the broadcast channel            *)
(* "dissonance-audio".  Every JavaScript task is one atomic action: the    *)
(* part of playChord before `await ctx.resume()`, the part after it, a     *)
(* stopAll call, the channel listener, a cleanup-timer callback.           *)
(*                                                                         *)
(* Time is kept relative to the current instant, in microseconds: a timer  *)
(* holds the delay left until it is due, an oscillator the delay left      *)
(* until its committed stop.  Tick lets time pass.                         *)
(*                                                                         *)
(* Spec is one open page (instance A) with the root layout publishing      *)
(* route-change messages; SpecChannel is two open pages, A and B; SpecLive *)
(* is Spec with fair timers, delivery and resumption.                      *)
(***************************************************************************)
EXTENDS Integers, Sequences, FiniteSets, TLC

\* ---------------------------------------------------------------- bounds
MaxPlays == 2
MaxPartials == 2
\* the largest time (microseconds) given to a function called on its own
MaxTime == 3
\* rows and columns of a surface given to extractConsonantMinima
GridSize == 3
\* ratio samples per unit of ratio (the finest step is 1 / RatioSteps)
RatioSteps == 2
MidiSpan == 66
\* the longest partial list given to a synth played on its own
MaxSynthPartials == 12

\* ------------------------------------------------------ program constants
\* all times in microseconds
BASE_FADE_IN == 2000
BASE_RELEASE == 3455000
RELEASE_STAGGER == 345500
QUICK_RELEASE == 120000
QUICK_STAGGER == 30000
MIN_FORCE_FADE == 10000
STOP_EPSILON == 1
FORCED_CLEANUP_PAD == 20000
NATURAL_CLEANUP_PAD == 50000

Null == -1

\* Number.NEGATIVE_INFINITY: below every score
NEGATIVE_INFINITY == -1

\* The normalised value 1
NORMAL_ONE == 1000

\* A: the dyadic explorer page; B: the triad explorer page
Instances == {"A", "B"}

SOURCE(i) == IF i = "A" THEN "dyadic-explorer" ELSE "triad-explorer"

\* The length of the tuning list of a page's play request:
\* [1, ratio] on the dyadic explorer, [1, r, s] on the triad explorer
TuningLen(i) == IF i = "A" THEN 2 ELSE 3

ROUTE_CHANGE == "route-change"

Max(a, b) == IF a >= b THEN a ELSE b

\* Synth k of request r is numbered (r - 1) * 3 + k
SynthId(r, k) == (r - 1) * 3 + k

MaxSynths == MaxPlays * 3

\* A request's partial list: empty, or MaxPartials multipliers
PartialCounts == {0, MaxPartials}

VARIABLES
    audioRef,     \* audioRef.current per instance: 0 = null, k > 0 = the k-th context
    ctxClosed,    \* whether audioRef.current.state is "closed"
    active,       \* activeVoicesRef.current per instance: a sequence of ActiveVoice
    timers,       \* the pending window.setTimeout entries
    inbox,        \* per listener, the src tags of the stop-others messages in flight
    pending,      \* play requests suspended at `await ctx.resume()`
    nextReq,      \* number of play requests issued so far
    lastReq,      \* history: the latest play request each page issued (0: none)
    disconnects,  \* history: calls of synth.disconnect() per synth
    removals,     \* history: removals from the active set per synth
    mounted,      \* the pages that are open: their listeners are on the channel
    call,         \* a call of one of the pure functions: its name and arguments
    result        \* what the call returned ([fn |-> "none"] before it returns)

\* The state of a function call, which no scheduler task touches
calc == <<call, result>>

\* The state of the schedulers, which no function call touches
sched == <<audioRef, ctxClosed, active, timers, inbox, pending, nextReq,
           lastReq, disconnects, removals, mounted>>

vars == <<audioRef, ctxClosed, active, timers, inbox, pending, nextReq,
          lastReq, disconnects, removals, mounted, call, result>>

\* ------------------------------------------------------------ ReferenceOsc

\* release: the gain automation ahead: "none", "scheduled" (the fade-out of
\* play) or "forced" (cancelled and replaced by the forced ramp);
\* bareRecommits counts the stops committed over a committed stop while the
\* fade-out of play was still scheduled.
NewOsc ==
    [started |-> FALSE, scheduledStop |-> Null, startRead |-> 0,
     fadeIn |-> FALSE, release |-> "none", bareRecommits |-> 0]

\* start(time): the driver starts the oscillator; `read` names the clock
\* sample the start time came from.
OscStart(o, read) == [o EXCEPT !.started = TRUE, !.scheduledStop = Null, !.startRead = read]

\* stop(time) that returns early for a time at or before the committed stop
\* and commits any later one
OscStopKeepsEarlier(o, time) ==
    IF o.scheduledStop # Null /\ time <= o.scheduledStop
    THEN o
    ELSE IF ~o.started
         THEN o
         ELSE [o EXCEPT !.scheduledStop = time,
                        !.bareRecommits =
                            IF o.scheduledStop # Null /\ o.release = "scheduled"
                            THEN @ + 1 ELSE @]

\* stop(time): a no-op at or after the committed stop; the driver rejects a
\* stop of an oscillator that was never started (InvalidStateError, swallowed).
OscStop(o, time) ==
    IF o.scheduledStop # Null /\ time >= o.scheduledStop - STOP_EPSILON
    THEN o
    ELSE IF ~o.started
         THEN o
         ELSE [o EXCEPT !.scheduledStop = time,
                        !.bareRecommits =
                            IF o.scheduledStop # Null /\ o.release = "scheduled"
                            THEN @ + 1 ELSE @]

\* stop(time) reaches this.osc.stop(time) unless it returns early
DriverStopCalled(o, time) ==
    ~(o.scheduledStop # Null /\ time >= o.scheduledStop - STOP_EPSILON)

\* What the driver does with osc.start / osc.stop on oscillator o: it rejects
\* a start of a started oscillator and a stop of one never started with
\* InvalidStateError; otherwise it accepts the call or rejects the time
DriverErrors(op, o) ==
    IF (op = "start") = o.started THEN {"InvalidStateError"} ELSE {"none", "RangeError"}

\* start(time) with a catch that swallows every error
OscStartSwallowsAll(o, read, error) ==
    IF error = "none"
    THEN [osc |-> OscStart(o, read), thrown |-> "none"]
    ELSE [osc |-> o, thrown |-> "none"]

\* start(time) when the driver answers osc.start with `error`: the oscillator
\* afterwards and the error that reaches the caller
OscStartOutcome(o, read, error) ==
    IF error = "none"
    THEN [osc |-> OscStart(o, read), thrown |-> "none"]
    ELSE [osc |-> o, thrown |-> IF error = "InvalidStateError" THEN "none" ELSE error]

\* stop(time) when the driver answers osc.stop with `error`
OscStopOutcome(o, time, error) ==
    IF ~DriverStopCalled(o, time)
    THEN [osc |-> o, thrown |-> "none"]
    ELSE IF error = "none"
         THEN [osc |-> OscStop(o, time), thrown |-> "none"]
         ELSE [osc |-> o, thrown |-> IF error = "InvalidStateError" THEN "none" ELSE error]

\* fadeIn(amplitude, targetTime)
OscFadeIn(o) == [o EXCEPT !.fadeIn = TRUE]

\* scheduleFadeOut(targetTime)
OscScheduleFadeOut(o) == [o EXCEPT !.release = "scheduled"]

\* forceFadeOut(now, targetTime): the end time actually used
SafeTarget(now, targetTime) == Max(now + MIN_FORCE_FADE, targetTime)

\* forceFadeOut that leaves the scheduled automation in place
ForceFadeOutNoCancel(o, now, targetTime) == OscStop(o, SafeTarget(now, targetTime))

\* forceFadeOut: cancel the scheduled values, ramp down to safeTarget, stop
ForceFadeOut(o, now, targetTime) ==
    OscStop([o EXCEPT !.release = "forced"], SafeTarget(now, targetTime))

\* ---------------------------------------------------------- ReferenceSynth

\* forceSilence: release moment of partial idx (0-based)
QuickReleaseMoment(now, idx) == now + QUICK_RELEASE - QUICK_STAGGER * idx

RECURSIVE LatestEnd(_, _, _)
LatestEnd(now, n, latest) ==
    IF n = 0 THEN latest
    ELSE LatestEnd(now, n - 1,
                   Max(latest, SafeTarget(now, QuickReleaseMoment(now, n - 1))))

\* forceSilence(now): the oscillators after the forced fade-out
ForceSilenceOscs(oscs, now) ==
    [k \in 1..Len(oscs) |-> ForceFadeOut(oscs[k], now, QuickReleaseMoment(now, k - 1))]

\* forceSilence returning the end time of its last oscillator
ForceSilenceLastEnd(oscs, now) ==
    IF Len(oscs) = 0 THEN now
    ELSE SafeTarget(now, QuickReleaseMoment(now, Len(oscs) - 1))

\* forceSilence(now): the endTime that forceFadeOut returns for each oscillator
ForceSilenceEnds(oscs, now) ==
    [k \in 1..Len(oscs) |-> SafeTarget(now, QuickReleaseMoment(now, k - 1))]

\* forceSilence(now): the value returned
ForceSilenceEnd(oscs, now) == LatestEnd(now, Len(oscs), now)

\* play(baseFrequency, startTime): the oscillators of a synth with n partials;
\* failAt = 0 when every driver call succeeds, else the (1-based) partial whose
\* osc.start raises an error other than InvalidStateError, which ends the loop.
PlayOscs(n, startTime, read, failAt) ==
    [k \in 1..n |->
        IF failAt = 0 \/ k < failAt
        THEN OscStop(OscScheduleFadeOut(OscFadeIn(OscStart(NewOsc, read))),
                     startTime + BASE_RELEASE)
        ELSE NewOsc]

\* play: fadeIn's target time
FadeInEnd(startTime) == startTime + BASE_FADE_IN

\* the release moment without Math.max(startTime, ...)
ReleaseMomentUnclamped(startTime, idx) == startTime + BASE_RELEASE - RELEASE_STAGGER * idx

\* play: releaseMoment of partial idx (0-based), scheduleFadeOut's target time
ReleaseMoment(startTime, idx) ==
    Max(startTime, startTime + BASE_RELEASE - RELEASE_STAGGER * idx)

\* play: the times handed to fadeIn and scheduleFadeOut, and the stop the
\* oscillator holds afterwards, for each of the n partials
PlayEnvelopes(n, startTime) ==
    [k \in 1..n |->
        [fadeInEnd |-> FadeInEnd(startTime),
         releaseMoment |-> ReleaseMoment(startTime, k - 1),
         stop |-> PlayOscs(n, startTime, 1, 0)[k].scheduledStop]]

\* play without the test of the partial list
PlayStopTimeNoGuard(n, startTime) == startTime + BASE_RELEASE

\* play: the value returned
PlayStopTime(n, startTime) == IF n = 0 THEN startTime ELSE startTime + BASE_RELEASE

\* ------------------------------------------------------------------ timers

HandleNotIn(tms) == CHOOSE h \in 1..(Cardinality(tms) + 1) : \A t \in tms : t.h # h

\* clearTimeout(handle)
ClearTimeout(tms, h) == {t \in tms : t.h # h}

\* window.setTimeout(callback, delay) for the cleanup of voice v of instance i
SetTimeout(tms, h, i, v, delay) == tms \cup {[h |-> h, inst |-> i, v |-> v, left |-> delay]}

\* ----------------------------------------------------------------- stopAll

ForcedDelay(releaseEnd, now) == Max(0, releaseEnd - now + FORCED_CLEANUP_PAD)

\* The natural cleanup armed ahead of the hard stop by the pad, not after it
NaturalDelayEarly(stopTime, startTime) ==
    Max(0, stopTime - startTime - NATURAL_CLEANUP_PAD)

NaturalDelay(stopTime, startTime) == Max(0, stopTime - startTime + NATURAL_CLEANUP_PAD)

\* stopAll's forEach body without the clearTimeout of the pending timer
StopVoiceNoClear(voice, tms, i, now) ==
    LET releaseEnd == ForceSilenceEnd(voice.oscs, now)
        h == HandleNotIn(tms)
    IN <<[voice EXCEPT !.oscs = ForceSilenceOscs(voice.oscs, now),
                       !.forced = TRUE,
                       !.cleanupTimer = h],
         SetTimeout(tms, h, i, voice.id, ForcedDelay(releaseEnd, now))>>

\* One iteration of stopAll's forEach on voice `voice` of instance i:
\* <<the voice afterwards, the timers afterwards>>
StopVoice(voice, tms, i, now) ==
    LET cleared == IF voice.cleanupTimer # Null
                   THEN ClearTimeout(tms, voice.cleanupTimer)
                   ELSE tms
        releaseEnd == ForceSilenceEnd(voice.oscs, now)
        h == HandleNotIn(cleared)
    IN <<[voice EXCEPT !.oscs = ForceSilenceOscs(voice.oscs, now),
                       !.forced = TRUE,
                       !.cleanupTimer = h],
         SetTimeout(cleared, h, i, voice.id, ForcedDelay(releaseEnd, now))>>

\* The loop state <<voices, timers>> after the iteration on voice k
StopStep(st, i, now, k) ==
    LET r == StopVoice(st[1][k], st[2], i, now)
    IN <<[st[1] EXCEPT ![k] = r[1]], r[2]>>

\* The forEach from voice k on (the one-element set binds the loop state of
\* an iteration, so that it is computed once)
RECURSIVE StopAllFrom(_, _, _, _)
StopAllFrom(st, i, now, k) ==
    IF k > Len(st[1]) THEN st
    ELSE CHOOSE out \in {StopAllFrom(next, i, now, k + 1) :
                            next \in {StopStep(st, i, now, k)}} : TRUE

\* stopAll(): <<activeVoicesRef.current afterwards, the timers afterwards>>
StopAllResult(voices, tms, i) == StopAllFrom(<<voices, tms>>, i, 0, 1)

\* stop(time) with a catch that rethrows every driver error
OscStopRethrows(o, time) ==
    LET driverError ==
            IF o.scheduledStop # Null /\ time >= o.scheduledStop - STOP_EPSILON
            THEN "none"
            ELSE IF ~o.started THEN "InvalidStateError" ELSE "none"
    IN driverError # "none"

\* Whether stop(time) lets a driver error escape: the driver rejects the stop
\* of a never-started oscillator with InvalidStateError, which stop() swallows.
OscStopRaises(o, time) ==
    LET driverError ==
            IF o.scheduledStop # Null /\ time >= o.scheduledStop - STOP_EPSILON
            THEN "none"
            ELSE IF ~o.started THEN "InvalidStateError" ELSE "none"
    IN driverError \notin {"none", "InvalidStateError"}

\* Whether stopAll() on these voices ends with an exception
StopAllRaises(voices) ==
    \E k \in 1..Len(voices) : \E j \in 1..Len(voices[k].oscs) :
        OscStopRaises(voices[k].oscs[j], SafeTarget(0, QuickReleaseMoment(0, j - 1)))

\* --------------------------------------------------------------- playChord

\* ctx.currentTime read again for every tuning entry
StartReadPerNote(k, idx) == k

\* The clock sample that the start of partial idx of tuning entry k uses:
\* startTime is read from ctx.currentTime once, before the tuning loop.
StartRead(k, idx) == 1

\* The ActiveVoice made for tuning entry k of request p; failAt as in PlayOscs
NewVoice(p, k, failAt) ==
    [id |-> SynthId(p.req, k),
     req |-> p.req,
     ctx |-> p.ctx,
     epoch |-> nextReq,
     cleanupTimer |-> Null,
     forced |-> FALSE,
     oscs |-> [j \in 1..p.n |-> PlayOscs(p.n, 0, StartRead(k, j), failAt)[j]]]

\* The loop state <<voices, timers>> after tuning entry k, every driver call
\* of the entry succeeding: the voice is pushed, played, its timer armed
TuningStep(st, p, k) ==
    LET h == HandleNotIn(st[2])
        voice == [NewVoice(p, k, 0) EXCEPT !.cleanupTimer = h]
        delay == NaturalDelay(PlayStopTime(p.n, 0), 0)
    IN <<Append(st[1], voice), SetTimeout(st[2], h, p.inst, voice.id, delay)>>

\* The tuning loop from entry k on; the driver error, if any, strikes at
\* partial failIdx of entry failK (failK = 0: no error) and ends the loop
\* before the entry's cleanup timer is armed.
RECURSIVE TuningLoop(_, _, _, _, _)
TuningLoop(st, p, k, failK, failIdx) ==
    IF k > TuningLen(p.inst) THEN st
    ELSE IF k = failK
         THEN <<Append(st[1], NewVoice(p, k, failIdx)), st[2]>>
         ELSE CHOOSE out \in {TuningLoop(next, p, k + 1, failK, failIdx) :
                                 next \in {TuningStep(st, p, k)}} : TRUE

\* playChord starting the new synths without the stopAll() before them
AfterResumeNoStop(voices, tms, p, resumed, failK, failIdx) ==
    IF p.n = 0
    THEN <<voices, tms>>
    ELSE TuningLoop(<<voices, tms>>, p, 1, failK, failIdx)

\* playChord calling stopAll() after the tuning loop, not before it
AfterResumeStopsLast(voices, tms, p, resumed, failK, failIdx) ==
    IF p.n = 0
    THEN <<voices, tms>>
    ELSE CHOOSE out \in {StopAllResult(started[1], started[2], p.inst) :
                            started \in {TuningLoop(<<voices, tms>>, p, 1, failK, failIdx)}} : TRUE

\* playChord calling stopAll() before the test of the partial list
AfterResumeStopsFirst(voices, tms, p, resumed, failK, failIdx) ==
    CHOOSE out \in {IF p.n = 0 THEN stopped ELSE TuningLoop(stopped, p, 1, failK, failIdx) :
                       stopped \in {StopAllResult(voices, tms, p.inst)}} : TRUE

\* What playChord does once `await ctx.resume()` has settled; `resumed` says
\* whether the promise resolved: a rejection is caught and ignored.
\* <<active voices afterwards, timers afterwards>>
AfterResume(voices, tms, p, resumed, failK, failIdx) ==
    IF p.n = 0
    THEN <<voices, tms>>
    ELSE CHOOSE out \in {TuningLoop(stopped, p, 1, failK, failIdx) :
                            stopped \in {StopAllResult(voices, tms, p.inst)}} : TRUE

\* postMessage on the channel: every listener on it gets the message, the
\* listener of the publishing page included (it is another channel object)
Post(src) == [l \in Instances |-> IF l \in mounted THEN inbox[l] \cup {src} ELSE inbox[l]]

\* A publisher has at most one message in flight to each listener
InFlight(src) == \E l \in Instances : src \in inbox[l]

\* The test before the context is created, with the closed state ignored
NeedsContextIfNull(i) == audioRef[i] = 0

\* `!audioRef.current || audioRef.current.state === "closed"`
NeedsContext(i) == audioRef[i] = 0 \/ ctxClosed[i]

\* playChord up to the await: publish stop-others, then create the context
\* if there is none or it is closed (acquired: whether the constructor
\* returns; when it throws the request ends there).
PlayBegin(i, n, acquired) ==
    /\ i \in mounted
    /\ nextReq < MaxPlays
    /\ ~InFlight(SOURCE(i))
    /\ nextReq' = nextReq + 1
    /\ lastReq' = [lastReq EXCEPT ![i] = nextReq + 1]
    /\ inbox' = Post(SOURCE(i))
    /\ IF NeedsContext(i)
       THEN IF acquired
            THEN /\ audioRef' = [audioRef EXCEPT ![i] = @ + 1]
                 /\ ctxClosed' = [ctxClosed EXCEPT ![i] = FALSE]
                 /\ pending' = pending \cup
                        {[req |-> nextReq + 1, inst |-> i, ctx |-> audioRef[i] + 1, n |-> n]}
            ELSE UNCHANGED <<audioRef, ctxClosed, pending>>
       ELSE /\ acquired
            /\ pending' = pending \cup
                   {[req |-> nextReq + 1, inst |-> i, ctx |-> audioRef[i], n |-> n]}
            /\ UNCHANGED <<audioRef, ctxClosed>>
    /\ UNCHANGED <<active, timers, disconnects, removals, mounted>>
    /\ UNCHANGED calc

\* playChord after the await
PlayResume(p, resumed, failK, failIdx) ==
    /\ p \in pending
    /\ (failK = 0) = (failIdx = 0)
    /\ failK <= TuningLen(p.inst) /\ failIdx <= p.n
    /\ \E r \in {AfterResume(active[p.inst], timers, p, resumed, failK, failIdx)} :
          /\ active' = [active EXCEPT ![p.inst] = r[1]]
          /\ timers' = r[2]
    /\ pending' = pending \ {p}
    /\ UNCHANGED <<audioRef, ctxClosed, inbox, nextReq, lastReq, disconnects, removals, mounted>>
    /\ UNCHANGED calc

\* stopAll() called directly (the exposed API, the effect cleanup of a page)
StopAll(i) ==
    /\ i \in mounted
    /\ active[i] # <<>>
    /\ \E r \in {StopAllResult(active[i], timers, i)} :
          /\ active' = [active EXCEPT ![i] = r[1]]
          /\ timers' = r[2]
    /\ UNCHANGED <<audioRef, ctxClosed, inbox, pending, nextReq, lastReq,
                   disconnects, removals, mounted>>
    /\ UNCHANGED calc

\* ---------------------------------------------------------------- channel

\* The listener's test with the comparison inverted
ListenerStopsOwn(src, i) == src = SOURCE(i)

\* The listener's test without the comparison of the source tag
ListenerStopsAny(src, i) == TRUE

\* The listener's test on a received stop-others message
ListenerStops(src, i) == src # SOURCE(i)

\* bc.onmessage of page i on a stop-others message whose src is m
OnMessage(i, m) ==
    /\ m \in inbox[i]
    /\ inbox' = [inbox EXCEPT ![i] = @ \ {m}]
    /\ IF ListenerStops(m, i)
       THEN \E r \in {StopAllResult(active[i], timers, i)} :
               /\ active' = [active EXCEPT ![i] = r[1]]
               /\ timers' = r[2]
       ELSE UNCHANGED <<active, timers>>
    /\ UNCHANGED <<audioRef, ctxClosed, pending, nextReq, lastReq,
                   disconnects, removals, mounted>>
    /\ UNCHANGED calc

\* RootLayout: pagehide, or visibilitychange to hidden
RouteChange ==
    /\ ~InFlight(ROUTE_CHANGE)
    /\ inbox' = Post(ROUTE_CHANGE)
    /\ UNCHANGED <<audioRef, ctxClosed, active, timers, pending, nextReq,
                   lastReq, disconnects, removals, mounted>>
    /\ UNCHANGED calc

\* The browser closes the page's audio context: its state reads "closed"
CloseCtx(i) ==
    /\ audioRef[i] # 0
    /\ ~ctxClosed[i]
    /\ ctxClosed' = [ctxClosed EXCEPT ![i] = TRUE]
    /\ UNCHANGED <<audioRef, active, timers, inbox, pending, nextReq, lastReq,
                   disconnects, removals, mounted>>
    /\ UNCHANGED calc

\* ----------------------------------------------------------------- timers

RemoveVoice(voices, v) == SelectSeq(voices, LAMBDA e : e.id # v)

HasVoice(voices, v) == \E k \in 1..Len(voices) : voices[k].id = v

\* The cleanup callback of a due timer: disconnect the synth, drop the voice
FireTimer(t) ==
    /\ t \in timers
    /\ t.left = 0
    /\ timers' = timers \ {t}
    /\ disconnects' = [disconnects EXCEPT ![t.v] = @ + 1]
    /\ removals' = [removals EXCEPT ![t.v] =
                       IF HasVoice(active[t.inst], t.v) THEN @ + 1 ELSE @]
    /\ active' = [active EXCEPT ![t.inst] = RemoveVoice(@, t.v)]
    /\ UNCHANGED <<audioRef, ctxClosed, inbox, pending, nextReq, lastReq, mounted>>
    /\ UNCHANGED calc

\* ------------------------------------------------------------------- time

Voices(i) == {active[i][k] : k \in 1..Len(active[i])}

AllVoices == UNION {Voices(i) : i \in Instances}

\* The delays that are still running: of timers, of committed oscillator stops
Running ==
    {t.left : t \in {u \in timers : u.left > 0}}
    \cup UNION {{voice.oscs[j].scheduledStop :
                    j \in {x \in 1..Len(voice.oscs) : voice.oscs[x].scheduledStop > 0}}
                : voice \in AllVoices}

\* The delay until the next of them ends
NextDue == CHOOSE d \in Running : \A e \in Running : d <= e

Elapse(x, d) == IF x = Null THEN Null ELSE Max(0, x - d)

\* d microseconds pass, on the audio clock and on the timer clock alike.
\* Tick: time passes until the next running delay ends; a due timer need not
\* fire before time moves on.
Advance(d) ==
    /\ timers' = {[t EXCEPT !.left = Elapse(@, d)] : t \in timers}
    /\ active' = [i \in Instances |->
                    [k \in 1..Len(active[i]) |->
                        [active[i][k] EXCEPT !.oscs =
                            [j \in 1..Len(@) |->
                                [@[j] EXCEPT !.scheduledStop = Elapse(@, d)]]]]]
    /\ UNCHANGED <<audioRef, ctxClosed, inbox, pending, nextReq, lastReq,
                   disconnects, removals, mounted>>
    /\ UNCHANGED calc

Tick(d) ==
    /\ Running # {}
    /\ d = NextDue
    /\ Advance(d)

\* QUICK_RELEASE passes: less than the delay of a forced cleanup timer
Nap ==
    /\ Running # {}
    /\ Advance(QUICK_RELEASE)

\* ---------------------------------------------------------- specification

InitSched(pages) ==
    /\ audioRef = [i \in Instances |-> 0]
    /\ ctxClosed = [i \in Instances |-> FALSE]
    /\ active = [i \in Instances |-> <<>>]
    /\ timers = {}
    /\ inbox = [i \in Instances |-> {}]
    /\ pending = {}
    /\ nextReq = 0
    /\ lastReq = [i \in Instances |-> 0]
    /\ disconnects = [s \in 1..MaxSynths |-> 0]
    /\ removals = [s \in 1..MaxSynths |-> 0]
    /\ mounted = pages

\* No function call under way
NoCall == [fn |-> "none"]

InitWith(pages) ==
    /\ InitSched(pages)
    /\ call = NoCall
    /\ result = NoCall

\* One open page
Init == InitWith({"A"})

Next ==
    \/ \E i \in mounted, n \in PartialCounts, acquired \in BOOLEAN :
          PlayBegin(i, n, acquired)
    \/ \E p \in pending, resumed \in BOOLEAN :
          \E failK \in {0, TuningLen(p.inst)}, failIdx \in {0, p.n} :
              PlayResume(p, resumed, failK, failIdx)
    \/ \E i \in mounted : StopAll(i)
    \/ \E i \in mounted : \E m \in inbox[i] : OnMessage(i, m)
    \/ RouteChange
    \/ \E t \in timers : FireTimer(t)
    \/ \E d \in Running : Tick(d)

Spec == Init /\ [][Next]_vars

\* Two open pages; every driver call succeeds and no timer comes due
InitChannel == InitWith(Instances)

NextChannel ==
    \/ \E i \in mounted, n \in PartialCounts : PlayBegin(i, n, TRUE)
    \/ \E p \in pending, resumed \in BOOLEAN : PlayResume(p, resumed, 0, 0)
    \/ \E i \in mounted : \E m \in inbox[i] : OnMessage(i, m)
    \/ RouteChange

SpecChannel == InitChannel /\ [][NextChannel]_vars

\* One open page, every driver call succeeds.  A cleanup timer fires when it
\* is due, before any other task runs; time passes, posted messages are
\* delivered and suspended requests resume.
Due == {t \in timers : t.left = 0}

NextLive ==
    \/ Due = {} /\ \E i \in mounted, n \in PartialCounts : PlayBegin(i, n, TRUE)
    \/ Due = {} /\ \E p \in pending, resumed \in BOOLEAN : PlayResume(p, resumed, 0, 0)
    \/ Due = {} /\ \E i \in mounted : StopAll(i)
    \/ Due = {} /\ \E i \in mounted : \E m \in inbox[i] : OnMessage(i, m)
    \/ Due = {} /\ RouteChange
    \/ \E t \in Due : FireTimer(t)
    \/ Due = {} /\ \E d \in Running : Tick(d)
    \/ Due = {} /\ Nap

TimePasses == Due = {} /\ ((\E d \in Running : Tick(d)) \/ Nap)

Firing == \E t \in Due : FireTimer(t)

Delivery == Due = {} /\ \E i \in mounted : \E m \in inbox[i] : OnMessage(i, m)

Resumption ==
    Due = {} /\ \E p \in pending, resumed \in BOOLEAN : PlayResume(p, resumed, 0, 0)

SpecLive ==
    /\ Init
    /\ [][NextLive]_vars
    /\ WF_vars(TimePasses)
    /\ WF_vars(Firing)
    /\ WF_vars(Delivery)
    /\ WF_vars(Resumption)

\* One open page whose audio context the browser may close at any time
NextCtx ==
    \/ \E i \in mounted, n \in PartialCounts, acquired \in BOOLEAN :
          PlayBegin(i, n, acquired)
    \/ \E p \in pending, resumed \in BOOLEAN : PlayResume(p, resumed, 0, 0)
    \/ \E i \in mounted : StopAll(i)
    \/ \E i \in mounted : \E m \in inbox[i] : OnMessage(i, m)
    \/ \E i \in mounted : CloseCtx(i)

SpecCtx == Init /\ [][NextCtx]_vars

\* --------------------------------------------------- functions on their own

\* A function is called with arguments drawn from PlayCalls, ...; the one
\* step of a behaviour is its return.
Returns(fn, value) ==
    /\ call.fn = fn
    /\ result = NoCall
    /\ result' = value
    /\ UNCHANGED <<call, sched>>

\* new ReferenceSynth(ctx, n multipliers, n amplitudes).play(f, startTime)
PlayCalls == [fn : {"play"}, n : 0..MaxPartials, startTime : 0..MaxTime]

SynthPlay ==
    Returns("play",
            [fn |-> "play",
             stopTime |-> PlayStopTime(call.n, call.startTime),
             oscs |-> PlayOscs(call.n, call.startTime, 1, 0)])

\* play on a synth of up to MaxSynthPartials partials: the envelope times
EnvelopeCalls == [fn : {"envelope"}, n : 0..MaxSynthPartials, startTime : 0..MaxTime]

SynthEnvelope ==
    Returns("envelope",
            [fn |-> "envelope",
             stopTime |-> PlayStopTime(call.n, call.startTime),
             envelopes |-> PlayEnvelopes(call.n, call.startTime)])

\* forceSilence(now) on a synth of n partials that was played at time 0
ForceSilenceCalls == [fn : {"forceSilence"}, n : 0..MaxSynthPartials, now : 0..MaxTime]

SynthForceSilence ==
    Returns("forceSilence",
            [fn |-> "forceSilence",
             latest |-> ForceSilenceEnd(PlayOscs(call.n, 0, 1, 0), call.now),
             ends |-> ForceSilenceEnds(PlayOscs(call.n, 0, 1, 0), call.now),
             oscs |-> ForceSilenceOscs(PlayOscs(call.n, 0, 1, 0), call.now)])

\* ReferenceOsc.stop(time) on a started oscillator whose stop is committed
\* at the time `committed`
OscStopCalls == [fn : {"oscStop"}, committed : 0..MaxTime, time : 0..MaxTime]

CommittedOsc(committed) == OscStop(OscStart(NewOsc, 0), committed)

StopCommitted ==
    Returns("oscStop",
            [fn |-> "oscStop",
             osc |-> OscStop(CommittedOsc(call.committed), call.time),
             driverStop |-> DriverStopCalled(CommittedOsc(call.committed), call.time)])

\* start(time) and stop(time) on an oscillator never started, started, or
\* started with a committed stop, with each answer the driver can give
OscsBefore ==
    {NewOsc, OscStart(NewOsc, 0)} \cup {CommittedOsc(committed) : committed \in 0..MaxTime}

DriverCalls ==
    {c \in [fn : {"driver"}, op : {"start", "stop"}, osc : OscsBefore,
            time : 0..MaxTime, error : {"none", "InvalidStateError", "RangeError"}] :
        c.error \in DriverErrors(c.op, c.osc)}

OscDriverCall ==
    Returns("driver",
            IF call.op = "start"
            THEN [fn |-> "driver", out |-> OscStartOutcome(call.osc, 1, call.error)]
            ELSE [fn |-> "driver", out |-> OscStopOutcome(call.osc, call.time, call.error)])

\* ReferenceOsc.forceFadeOut(now, targetTime) on a started oscillator whose
\* stop is committed at the time `committed`
ForceFadeCalls ==
    [fn : {"forceFadeOut"},
     committed : {MIN_FORCE_FADE, QUICK_RELEASE, BASE_RELEASE},
     now : 0..MaxTime,
     release : {0, QUICK_STAGGER, QUICK_RELEASE}]

ForceFade ==
    Returns("forceFadeOut",
            [fn |-> "forceFadeOut",
             endTime |-> SafeTarget(call.now, call.now + call.release),
             osc |-> ForceFadeOut(CommittedOsc(call.committed), call.now,
                                  call.now + call.release)])

\* ---- extractConsonantMinima (triad explorer)

\* The dissonance values of a surface, and the thresholds and limits tried
\* (the page calls with limit 8)
GridValues == {0, 1}

Limits == {1, 8}

Surfaces == [0..(GridSize - 1) -> [0..(GridSize - 1) -> GridValues]]

\* The test with a neighbour of equal value counted as lower
IsMinimumStrict(values, i, j) ==
    \A di, dj \in -1..1 :
        (di # 0 \/ dj # 0) => ~(values[i + di][j + dj] <= values[i][j])

\* The inner loops: no neighbour of cell (i, j) is strictly lower
IsMinimum(values, i, j) ==
    \A di, dj \in -1..1 :
        (di # 0 \/ dj # 0) => ~(values[i + di][j + dj] < values[i][j])

\* The cells pushed by the outer loops
Pushed(values, rows, cols, threshold) ==
    {c \in (1..(rows - 2)) \X (1..(cols - 2)) :
        /\ ~(values[c[1]][c[2]] > threshold)
        /\ IsMinimum(values, c[1], c[2])}

\* The list left in the order of the pushes, not sorted by value
BeforeAsPushed(values, cols, c, d) == c[1] * cols + c[2] < d[1] * cols + d[2]

\* Array.prototype.sort by value is stable: cells of equal value keep the
\* order in which the loops pushed them (row by row)
Before(values, cols, c, d) ==
    \/ values[c[1]][c[2]] < values[d[1]][d[2]]
    \/ /\ values[c[1]][c[2]] = values[d[1]][d[2]]
       /\ c[1] * cols + c[2] < d[1] * cols + d[2]

RECURSIVE Sorted(_, _, _)
Sorted(values, cols, cells) ==
    IF cells = {} THEN <<>>
    ELSE LET first == CHOOSE c \in cells :
                         \A d \in cells \ {c} : Before(values, cols, c, d)
         IN <<first>> \o Sorted(values, cols, cells \ {first})

\* slice(0, limit)
Slice(seq, limit) == SubSeq(seq, 1, IF limit < Len(seq) THEN limit ELSE Len(seq))

\* A returned minimum names its cell (the code gives ratios[i], ratios[j],
\* and the ratios of a surface are distinct) and its value
ExtractConsonantMinima(values, threshold, limit) ==
    LET rows == Cardinality(DOMAIN values)
        cols == Cardinality(DOMAIN values[0])
        sorted == Sorted(values, cols, Pushed(values, rows, cols, threshold))
    IN [k \in 1..Len(Slice(sorted, limit)) |->
           [i |-> sorted[k][1], j |-> sorted[k][2],
            value |-> values[sorted[k][1]][sorted[k][2]]]]

MinimaCalls ==
    [fn : {"minima"}, values : Surfaces, threshold : GridValues, limit : Limits]

ExtractMinima ==
    Returns("minima",
            [fn |-> "minima",
             minima |-> ExtractConsonantMinima(call.values, call.threshold, call.limit)])

\* Larger surfaces, with several separate minima of different depths: a flat
\* surface of value GridSize with a well of depth 0..GridSize at each of four
\* interior cells no two of which are neighbours
WellGridSize == GridSize + 2

Wells == {1, 3} \X {1, 3}

WellSurfaces ==
    {[i \in 0..(WellGridSize - 1) |->
         [j \in 0..(WellGridSize - 1) |->
             IF <<i, j>> \in Wells THEN depth[<<i, j>>] ELSE GridSize]] :
        depth \in [Wells -> 0..GridSize]}

WellCalls ==
    [fn : {"wellMinima"}, values : WellSurfaces, threshold : 0..GridSize,
     limit : {1, 2, 8}]

ExtractWellMinima ==
    Returns("wellMinima",
            [fn |-> "wellMinima",
             minima |-> ExtractConsonantMinima(call.values, call.threshold, call.limit)])

\* ---- roughness (math.ts)
\* Frequencies are in 1 / RatioSteps Hz and ratios in 1 / RatioSteps, so
\* that ratio * frequency is an integer; loudness is in 1e-3, exponents and
\* exponentials in 1e-2, and a kernel value or score in quarters of 1e-5, so
\* that the halvings of the aggregators are exact.

RECURSIVE SeqSum(_)
SeqSum(seq) == IF seq = <<>> THEN 0 ELSE Head(seq) + SeqSum(Tail(seq))

Min(a, b) == IF a <= b THEN a ELSE b

\* ampToLoudness of the amplitude 1 / k of harmonic k (rolloff 1):
\* 2^(dB / 10) / 16 with dB = 20 log10(1 / k), in 1e-3
AmpToLoudness(k) == <<63, 41, 32, 27, 24, 21>>[k]

\* Math.exp(-y) for y >= 0 in 1e-2 (y in 1e-2 too), by 1 / (1 + y + y^2 / 2):
\* exactly 1 at 0 and decreasing in y, as the exponential is
ExpNeg(y) == (100 * 20000) \div (20000 + 200 * y + y * y)

\* The separation taken as the sum of the two frequencies
SeparationSum(f1, f2) == Max(f1, f2) + Min(f1, f2)

\* fmax - fmin
Separation(f1, f2) == Max(f1, f2) - Min(f1, f2)

\* p = s * (fmax - fmin) with s = x / (s1 * fmin + s2), in 1e-2
KernelP(f1, f2) ==
    (240000 * Separation(f1, f2)) \div (207 * Min(f1, f2) + 189600 * RatioSteps)

\* l12 * (Math.exp(-b1 * p) - Math.exp(-b2 * p))
DissonanceKernel(f1, f2, l1, l2) ==
    LET pk == KernelP(f1, f2)
    IN 4 * Min(l1, l2) * (ExpNeg((351 * pk) \div 100) - ExpNeg((575 * pk) \div 100))

\* spectrumFromHarmonics(f0, n, 1): multipliers 1..n; the amplitude 1 / k is
\* written k
HarmonicSpectrum(n) == [freq |-> [k \in 1..n |-> k], amp |-> [k \in 1..n |-> k]]

\* The ordered pairs (i, j) of the double loop over the partials
PartialPairs(numPartials) ==
    [x \in 1..(numPartials * numPartials) |->
        <<((x - 1) \div numPartials) + 1, ((x - 1) % numPartials) + 1>>]

\* dyadicDissonance(baseFreq, ratio, spectrum); 1 is the ratio RatioSteps
DyadicDissonance(baseFreq, ratio, spectrum) ==
    LET loudnessArray == [k \in 1..Len(spectrum.amp) |-> AmpToLoudness(spectrum.amp[k])]
        numPartials == Len(spectrum.freq)
        pairs == PartialPairs(numPartials)
        term(i, j) ==
            LET f1 == baseFreq * spectrum.freq[i]
                f2 == baseFreq * spectrum.freq[j]
                l1 == loudnessArray[i]
                l2 == loudnessArray[j]
            IN (DissonanceKernel(RatioSteps * f1, RatioSteps * f2, l1, l2) \div 2)
               + (DissonanceKernel(ratio * f1, ratio * f2, l1, l2) \div 2)
               + DissonanceKernel(RatioSteps * f1, ratio * f2, l1, l2)
        dissonanceScore == SeqSum([x \in 1..Len(pairs) |-> term(pairs[x][1], pairs[x][2])])
    IN dissonanceScore \div 2

\* The ratio samples: minRatio, minRatio + step, ... up to maxRatio
SurfaceRatios(minRatio, maxRatio, step) ==
    [k \in 1..(((maxRatio - minRatio) \div step) + 1) |-> minRatio + (k - 1) * step]

\* One cell of `data`: the six kernels summed over the pairs, halved
TriadCell(baseFreq, spectrum, r, s) ==
    LET loudnessArray == [k \in 1..Len(spectrum.amp) |-> AmpToLoudness(spectrum.amp[k])]
        pairs == PartialPairs(Len(spectrum.freq))
        d(i, j) ==
            LET f1 == baseFreq * spectrum.freq[i]
                f2 == baseFreq * spectrum.freq[j]
                l1 == loudnessArray[i]
                l2 == loudnessArray[j]
            IN DissonanceKernel(RatioSteps * f1, RatioSteps * f2, l1, l2)
               + DissonanceKernel(r * f1, r * f2, l1, l2)
               + DissonanceKernel(RatioSteps * f1, r * f2, l1, l2)
               + DissonanceKernel(s * f1, s * f2, l1, l2)
               + DissonanceKernel(RatioSteps * f1, s * f2, l1, l2)
               + DissonanceKernel(r * f1, s * f2, l1, l2)
    IN SeqSum([x \in 1..Len(pairs) |-> d(pairs[x][1], pairs[x][2])]) \div 2

\* maxScore after the loops, from Number.NEGATIVE_INFINITY
RECURSIVE MaxScore(_, _)
MaxScore(cells, maxScore) ==
    IF cells = <<>> THEN maxScore
    ELSE MaxScore(Tail(cells), IF Head(cells) > maxScore THEN Head(cells) ELSE maxScore)

\* The normalisation without the division
NormalizeNoDivide(value, maxScore) == value

\* The normalisation with 1 where the maximum is not positive
NormalizeToOne(value, maxScore) ==
    IF maxScore > 0 THEN (value * NORMAL_ONE) \div maxScore ELSE NORMAL_ONE

\* maxScore > 0 ? value / maxScore : 0, in 1 / NORMAL_ONE
Normalize(value, maxScore) ==
    IF maxScore > 0 THEN (value * NORMAL_ONE) \div maxScore ELSE 0

\* computeTriadSurface; `data` is kept beside the two values returned
ComputeTriadSurface(baseFreq, spectrum, minRatio, maxRatio, step) ==
    LET ratios == SurfaceRatios(minRatio, maxRatio, step)
        data == [a \in 1..Len(ratios) |->
                    [b \in 1..Len(ratios) |->
                        TriadCell(baseFreq, spectrum, ratios[a], ratios[b])]]
        flat == [x \in 1..(Len(ratios) * Len(ratios)) |->
                    data[((x - 1) \div Len(ratios)) + 1][((x - 1) % Len(ratios)) + 1]]
        maxScore == MaxScore(flat, NEGATIVE_INFINITY)
    IN [ratios |-> ratios,
        data |-> data,
        maxScore |-> maxScore,
        values |-> [a \in 1..Len(data) |->
                      [b \in 1..Len(data[a]) |-> Normalize(data[a][b], maxScore)]]]

BaseFreqs == {110, 220}

KernelCalls ==
    [fn : {"kernel"},
     f1 : {220 * RatioSteps, 330 * RatioSteps, 440 * RatioSteps},
     f2 : {220 * RatioSteps, 330 * RatioSteps, 440 * RatioSteps},
     l1 : {0, 41, 63},
     l2 : {0, 41, 63}]

Kernel ==
    Returns("kernel",
            [fn |-> "kernel",
             value |-> DissonanceKernel(call.f1, call.f2, call.l1, call.l2)])

DyadCalls ==
    [fn : {"dyad"}, baseFreq : BaseFreqs,
     ratio : RatioSteps..(2 * RatioSteps), n : 0..MaxPartials]

Dyad ==
    Returns("dyad",
            [fn |-> "dyad",
             score |-> DyadicDissonance(call.baseFreq, call.ratio,
                                        HarmonicSpectrum(call.n))])

\* minRatio 1; maxRatio 1 or 2; step 1 / RatioSteps or 1
SurfaceCalls ==
    [fn : {"surface"}, baseFreq : BaseFreqs, n : 0..MaxPartials,
     maxRatio : {RatioSteps, 2 * RatioSteps}, step : {1, RatioSteps}]

TriadSurface ==
    Returns("surface",
            [fn |-> "surface",
             surface |-> ComputeTriadSurface(call.baseFreq, HarmonicSpectrum(call.n),
                                             RatioSteps, call.maxRatio, call.step)])

SpectrumCalls == [fn : {"spectrum"}, n : 0..MaxPartials]

SpectrumBuilder ==
    Returns("spectrum", [fn |-> "spectrum", spectrum |-> HarmonicSpectrum(call.n)])

\* midiToNoteName.  A MIDI number is carried in half units (midi = halves / 2)
\* so that Math.round has something to round; JavaScript's % takes the sign of
\* the dividend.
NOTE_NAMES == <<"C", "C#", "D", "D#", "E", "F", "F#", "G", "G#", "A", "A#", "B">>

JsRem(a, b) == IF a >= 0 THEN a % b ELSE -((-a) % b)

MathRound(halves) == (halves + 1) \div 2

NoteAt(index) == IF index \in 0..11 THEN NOTE_NAMES[index + 1] ELSE "undefined"

NoteIndexRaw(rounded) == JsRem(rounded, 12)

NoteIndex(rounded) == JsRem(JsRem(rounded, 12) + 12, 12)

MidiToNoteName(halves) ==
    LET rounded == MathRound(halves)
        octave == (rounded \div 12) - 1
    IN [note |-> NoteAt(NoteIndex(rounded)), octave |-> octave]

NoteCalls == [fn : {"noteName"}, halves : (-2 * MidiSpan)..(2 * MidiSpan)]

NoteName ==
    Returns("noteName", [fn |-> "noteName", name |-> MidiToNoteName(call.halves)])

Calls ==
    NoteCalls \cup DriverCalls \cup ForceSilenceCalls \cup WellCalls \cup EnvelopeCalls \cup OscStopCalls \cup ForceFadeCalls \cup PlayCalls \cup MinimaCalls \cup KernelCalls \cup DyadCalls \cup SurfaceCalls
    \cup SpectrumCalls

InitCalc ==
    /\ InitSched({})
    /\ call \in Calls
    /\ result = NoCall

NextCalc ==
    \/ SynthPlay
    \/ ExtractMinima
    \/ Kernel
    \/ Dyad
    \/ TriadSurface
    \/ SpectrumBuilder
    \/ NoteName
    \/ StopCommitted
    \/ ForceFade
    \/ SynthEnvelope
    \/ ExtractWellMinima
    \/ SynthForceSilence
    \/ OscDriverCall

SpecCalc == InitCalc /\ [][NextCalc]_vars

\* ------------------------------------------------------------------ claims

TimersOf(tms, v) == {t \in tms : t.v = v}

Sounding(i) == {v \in Voices(i) : ~v.forced}

IsActive(s) == \E i \in Instances : HasVoice(active[i], s)

\* C1: on one instance, in every reachable state, the active synths that
\* have not been force-silenced all belong to one play request: when a
\* request starts its synths, every synth already in the active set has been
\* force-silenced.
C1_OneGeneration ==
    \A i \in Instances : \A v, w \in Sounding(i) : v.req = w.req

C1_Witness ==
    \E v, w \in Voices("A") : v.forced /\ ~w.forced /\ v.req # w.req

\* C2 as stated: whenever page j has started the synths of a request issued
\* after a synth of another page i was started, that synth of i has already
\* been force-silenced.
C2_SilencedBeforeStart ==
    \A i, j \in Instances : \A v \in Voices(i), w \in Voices(j) :
        (i # j /\ w.req > v.epoch) => v.forced

\* C2 amended: a synth of page i that is still not force-silenced after
\* another page j has issued a play request has j's stop-others message still
\* in flight to i: the forced fade-out comes no later than the handling of
\* that message, which may be after j's synths have started.
C2_SilencedByDelivery ==
    \A i, j \in Instances : \A v \in Sounding(i) :
        (i # j /\ lastReq[j] > v.epoch) => SOURCE(j) \in inbox[i]

C2_Witness ==
    \E v \in Sounding("A"), w \in Sounding("B") :
        /\ w.req > v.epoch
        /\ SOURCE("B") \in inbox["A"]

\* C3 as stated: once every published stop-others message has been delivered
\* and handled, at most one of the two pages has active synths that are not
\* force-silenced.
C3_OneSounderAfterDelivery ==
    (\A l \in Instances : inbox[l] = {}) =>
        Cardinality({i \in Instances : Sounding(i) # {}}) <= 1

\* C4 (what holds of every finite run; that the removal does come is C5):
\* a synth is disconnected at most once and removed from the active set
\* at most once, both by the one cleanup callback that fires for it: an
\* active synth has not been disconnected, a synth that left the active set
\* was disconnected and removed exactly once, and no cancelled timer is
\* pending (every pending timer is the one its active voice refers to).
C4_RemovedOnce ==
    /\ \A s \in 1..MaxSynths :
          /\ disconnects[s] <= 1
          /\ removals[s] = disconnects[s]
          /\ IsActive(s) => disconnects[s] = 0
    /\ \A t \in timers : \E v \in Voices(t.inst) : v.id = t.v /\ v.cleanupTimer = t.h

C4_Witness ==
    /\ \E s \in 1..MaxSynths : removals[s] = 1 /\ disconnects[s] = 1 /\ ~IsActive(s)
    /\ \E v \in Voices("A") : v.forced

\* C5 as stated: every synth in the active set is eventually disconnected
\* and removed from it.
C5_EventuallyRemoved ==
    \A s \in 1..MaxSynths : IsActive(s) ~> (~IsActive(s) /\ disconnects[s] > 0)

\* C6: each synth in the active set has at most one pending cleanup timer, and
\* stopAll called twice in immediate succession raises no error and leaves
\* exactly one pending timer per synth: the second call replaces the timers
\* of the first.
C6_TimerReplaced ==
    \A i \in Instances :
        LET once == StopAllResult(active[i], timers, i)
            twice == StopAllResult(once[1], once[2], i)
        IN /\ \A v \in Voices(i) : Cardinality(TimersOf(timers, v.id)) <= 1
           /\ ~StopAllRaises(active[i])
           /\ ~StopAllRaises(once[1])
           /\ \A v \in Voices(i) : Cardinality(TimersOf(twice[2], v.id)) = 1
           /\ Cardinality(twice[2]) = Cardinality(once[2])

C6_Witness ==
    \E v \in Voices("A") :
        /\ v.forced
        /\ \E j \in 1..Len(v.oscs) : ~v.oscs[j].started
        /\ \E t \in TimersOf(timers, v.id) : t.left = QUICK_RELEASE + FORCED_CLEANUP_PAD

\* C7 as stated: whenever stopAll (called directly or by the listener)
\* replaces the pending cleanup timer of a synth, the new timer is due
\* earlier than the timer it cancels.
C7_EarlierDeadline ==
    [][\A i \in Instances :
          (StopAll(i) \/ \E m \in inbox[i] : ListenerStops(m, i) /\ OnMessage(i, m))
          => \A t \in timers, u \in timers' :
                (t.inst = i /\ u.v = t.v) => u.left < t.left]_vars

\* C8 as stated: a play request whose context cannot be acquired, or whose
\* resume is rejected, leaves the active set and the cleanup timers as they
\* were and constructs no synth.
C8_AbandonedOnFailure ==
    [][/\ \A i \in Instances, n \in PartialCounts :
             PlayBegin(i, n, FALSE) => UNCHANGED <<active, timers, pending, audioRef>>
       /\ \A p \in pending :
             (\E failK \in {0, TuningLen(p.inst)}, failIdx \in {0, p.n} :
                 PlayResume(p, FALSE, failK, failIdx))
             => UNCHANGED <<active, timers>>]_vars

\* C9: all started oscillators of all synths of one play request were started
\* with the same start time, the one sample of the audio clock the request
\* takes.
C9_OneStartTime ==
    \A i \in Instances : \A v, w \in Voices(i) :
        v.req = w.req =>
            \A j \in 1..Len(v.oscs), k \in 1..Len(w.oscs) :
                (v.oscs[j].started /\ w.oscs[k].started)
                => (v.oscs[j].startRead = 1 /\ w.oscs[k].startRead = 1)

C9_Witness ==
    \E v, w \in Voices("A") :
        /\ v.id # w.id /\ v.req = w.req
        /\ Len(v.oscs) >= 2
        /\ \A j \in 1..Len(v.oscs) : v.oscs[j].started /\ w.oscs[j].started

\* C10: when a listener takes a stop-others message from the channel, it
\* calls stopAll (every active synth force-silenced, every cleanup timer of
\* the page re-armed) exactly when the source tag is not the page's own; a
\* message with the page's own tag leaves active synths and timers unchanged.
C10_ListenerFilter ==
    [][\A i \in Instances : \A m \in inbox[i] :
          (inbox' = [inbox EXCEPT ![i] = @ \ {m}]) =>
              IF m # SOURCE(i)
              THEN /\ Len(active'[i]) = Len(active[i])
                   /\ \A k \in 1..Len(active'[i]) : active'[i][k].forced
                   /\ \A t \in timers' :
                         t.inst = i => t.left = QUICK_RELEASE + FORCED_CLEANUP_PAD
              ELSE UNCHANGED <<active, timers>>]_vars

C10_Witness ==
    \E i \in Instances : \E v \in Sounding(i) :
        /\ lastReq[i] > v.epoch
        /\ SOURCE(i) \notin inbox[i]

\* C11: a context is created only by a play request, only when the page has
\* none or its context reads closed, and then exactly one; a play request
\* issued while the page's context is open creates none; the request goes on
\* with the page's current, open context, and its synths are built on the
\* context it went on with.  No other step (stopAll, the listener, a closing
\* context, a resumption) creates a context.
C11_ContextReuse ==
    [][\A i \in Instances :
          /\ audioRef'[i] # audioRef[i] =>
                /\ lastReq'[i] # lastReq[i]
                /\ audioRef[i] = 0 \/ ctxClosed[i]
                /\ audioRef'[i] = audioRef[i] + 1
          /\ (lastReq'[i] # lastReq[i] /\ audioRef[i] # 0 /\ ~ctxClosed[i]) =>
                audioRef'[i] = audioRef[i]
          /\ \A p \in pending' \ pending :
                p.inst = i => (p.ctx = audioRef'[i] /\ ~ctxClosed'[i])
          /\ \A v \in {active'[i][k] : k \in 1..Len(active'[i])} :
                v \notin Voices(i) /\ ~v.forced =>
                    \E p \in pending : p.req = v.req /\ p.ctx = v.ctx]_vars

C11_Witness ==
    /\ audioRef["A"] = 2
    /\ \E v, w \in Voices("A") : v.ctx = 1 /\ w.ctx = 2

\* C12: play on a synth built from an empty partial list returns the start
\* time it was given and leaves no oscillator started, faded or stopped: the
\* synth has no oscillator.
C12_EmptyPlay ==
    (call.fn = "play" /\ result.fn = "play" /\ call.n = 0) =>
        /\ result.stopTime = call.startTime
        /\ \A k \in 1..Len(result.oscs) :
              LET o == result.oscs[k]
              IN ~o.started /\ ~o.fadeIn /\ o.release = "none" /\ o.scheduledStop = Null
        /\ result.oscs = <<>>

C12_Witness ==
    call.fn = "play" /\ result.fn = "play" /\ call.n = 0 /\ call.startTime > 0

\* C13: every cell extractConsonantMinima returns is an interior cell whose
\* value is at most the threshold and at most the value of each of its 8
\* neighbours; and an interior cell at or below the threshold none of whose
\* neighbours is strictly lower (a plateau cell too) is returned, unless the
\* limit cut the list.
C13_LocalMinima ==
    (call.fn = "minima" /\ result.fn = "minima") =>
        LET values == call.values
            last == GridSize - 1
            qualifies(i, j) ==
                /\ values[i][j] <= call.threshold
                /\ \A a \in (i - 1)..(i + 1), b \in (j - 1)..(j + 1) :
                      values[i][j] <= values[a][b]
        IN /\ \A k \in 1..Len(result.minima) :
                 LET m == result.minima[k]
                 IN /\ m.i \in 1..(last - 1) /\ m.j \in 1..(last - 1)
                    /\ m.value = values[m.i][m.j]
                    /\ qualifies(m.i, m.j)
           /\ Len(result.minima) <= call.limit
           /\ Len(result.minima) < call.limit =>
                 \A i, j \in 1..(last - 1) :
                     qualifies(i, j) =>
                         \E k \in 1..Len(result.minima) :
                             result.minima[k].i = i /\ result.minima[k].j = j

C13_Witness ==
    /\ call.fn = "minima" /\ result.fn = "minima"
    /\ Len(result.minima) > 0
    /\ \E i, j \in 0..(GridSize - 1) :
          /\ <<i, j>> # <<result.minima[1].i, result.minima[1].j>>
          /\ call.values[i][j] = result.minima[1].value

\* C14: the surface computeTriadSurface returns is square, one row and one
\* column per ratio sample; every value lies in [0, 1]; when the largest raw
\* score is positive some value is exactly 1, and when it is not every value
\* is 0.
C14_NormalisedSurface ==
    (call.fn = "surface" /\ result.fn = "surface") =>
        LET su == result.surface
            size == Len(su.ratios)
            cells == {<<a, b>> : a \in 1..size, b \in 1..size}
            largest == CHOOSE x \in {su.data[c[1]][c[2]] : c \in cells} :
                          \A c \in cells : su.data[c[1]][c[2]] <= x
        IN /\ size >= 1
           /\ Len(su.values) = size
           /\ \A a \in 1..size : Len(su.values[a]) = size
           /\ \A c \in cells : su.values[c[1]][c[2]] \in 0..NORMAL_ONE
           /\ largest > 0 => \E c \in cells : su.values[c[1]][c[2]] = NORMAL_ONE
           /\ largest <= 0 => \A c \in cells : su.values[c[1]][c[2]] = 0

C14_Witness ==
    /\ call.fn = "surface" /\ result.fn = "surface"
    /\ Len(result.surface.ratios) > 2
    /\ \E a, b, c, d \in 1..Len(result.surface.ratios) :
          /\ result.surface.values[a][b] = NORMAL_ONE
          /\ result.surface.values[c][d] \in 1..(NORMAL_ONE - 1)

\* C15: with a spectrum of no partials dyadicDissonance returns 0 and every
\* value of the surface computeTriadSurface returns is 0; both return.
C15_EmptySpectrum ==
    /\ (call.fn = "dyad" /\ result.fn = "dyad" /\ call.n = 0) => result.score = 0
    /\ (call.fn = "surface" /\ result.fn = "surface" /\ call.n = 0) =>
          /\ Len(result.surface.values) = Len(result.surface.ratios)
          /\ \A a \in 1..Len(result.surface.values) :
                \A b \in 1..Len(result.surface.values[a]) :
                    result.surface.values[a][b] = 0

C15_Witness ==
    /\ call.fn = "surface" /\ result.fn = "surface" /\ call.n = 0
    /\ Len(result.surface.values) > 1

\* C16 as stated: spectrumFromHarmonics called with partial count n returns
\* max(n, 1) partials, with the multipliers 1, 2, ... in increasing order and
\* as many amplitudes as multipliers: one partial for n = 0.
C16_ClampedSpectrum ==
    (call.fn = "spectrum" /\ result.fn = "spectrum") =>
        LET count == Max(call.n, 1)
        IN /\ Len(result.spectrum.freq) = count
           /\ \A k \in 1..Len(result.spectrum.freq) : result.spectrum.freq[k] = k
           /\ Len(result.spectrum.amp) = Len(result.spectrum.freq)

\* C17: for every integer MIDI number m of the range, negative ones included,
\* midiToNoteName(m) names the pitch class of index m mod 12 (mathematical
\* modulo, C = 0 ... B = 11) and the octave floor(m / 12) - 1, so that
\* 12 * (octave + 1) + index = m; midiToNoteName(60) is C4.
C17_NoteName ==
    (call.fn = "noteName" /\ result.fn = "noteName" /\ call.halves % 2 = 0) =>
        LET m == call.halves \div 2
            index == m % 12
        IN /\ result.name.note = NOTE_NAMES[index + 1]
           /\ result.name.octave = (m \div 12) - 1
           /\ 12 * (result.name.octave + 1) + index = m
           /\ m = 60 => result.name = [note |-> "C", octave |-> 4]

C17_Witness ==
    /\ call.fn = "noteName" /\ result.fn = "noteName"
    /\ call.halves = -2
    /\ result.name = [note |-> "B", octave |-> -2]

\* C18: dissonanceKernel(f, f, l1, l2) is 0 for every frequency f and all
\* loudness weights l1, l2 >= 0, and so the dyad score of a one-partial
\* spectrum at ratio 1 is exactly 0.
C18_UnisonIsZero ==
    /\ (call.fn = "kernel" /\ result.fn = "kernel" /\ call.f1 = call.f2) =>
            result.value = 0
    /\ (call.fn = "dyad" /\ result.fn = "dyad" /\ call.n = 1
            /\ call.ratio = RatioSteps) =>
            result.score = 0

C18_Witness ==
    /\ call.fn = "kernel" /\ result.fn = "kernel"
    /\ call.f1 = call.f2 /\ call.l1 = 63 /\ call.l2 = 41
    /\ result.value = 0

\* C19 as stated: for a voice with a committed stop time T, a stop request at
\* a time at or before T is a silent no-op (no driver stop call, T unchanged),
\* and a stop request at a time strictly after T re-commits the stop, making
\* the committed stop time the later one.
C19_StopAsStated ==
    (call.fn = "oscStop" /\ result.fn = "oscStop") =>
        /\ call.time <= call.committed =>
                ~result.driverStop /\ result.osc.scheduledStop = call.committed
        /\ call.time > call.committed =>
                result.driverStop /\ result.osc.scheduledStop = call.time

\* C19, amended: for a voice with a committed stop time T, a stop request at a
\* time at or after T - 1e-6 is a silent no-op (no driver stop call, T
\* unchanged), and a stop request at an earlier time re-commits the stop,
\* making the committed stop time the earlier one.
C19_StopIdempotence ==
    (call.fn = "oscStop" /\ result.fn = "oscStop") =>
        /\ call.time >= call.committed - STOP_EPSILON =>
                ~result.driverStop /\ result.osc.scheduledStop = call.committed
        /\ call.time < call.committed - STOP_EPSILON =>
                result.driverStop /\ result.osc.scheduledStop = call.time

C19_Witness ==
    /\ call.fn = "oscStop" /\ result.fn = "oscStop"
    /\ call.committed = MaxTime /\ call.time = 0
    /\ result.driverStop
    /\ result.osc.scheduledStop = 0

\* C20: in every sequence of play, stopAll and stop-others handling, whenever
\* an oscillator whose stop is already committed has a new stop time committed
\* to the driver, the automation scheduled on its gain was cancelled first, in
\* the same operation (the forced fade-out); no other path commits a stop over
\* a committed one.
C20_RecommitAfterCancel ==
    \A voice \in AllVoices : \A j \in 1..Len(voice.oscs) :
        /\ voice.oscs[j].bareRecommits = 0
        /\ voice.oscs[j].release = "forced" => voice.forced

C20_Witness ==
    \E voice \in AllVoices : \E j \in 1..Len(voice.oscs) :
        /\ voice.forced
        /\ voice.oscs[j].started
        /\ voice.oscs[j].release = "forced"
        /\ voice.oscs[j].scheduledStop = QUICK_RELEASE
        /\ voice.oscs[j].bareRecommits = 0

\* C21 as stated: forceFadeOut(now, target) on a started oscillator returns
\* max(now + 10 ms, target), and after it returns the committed stop time of
\* the oscillator is that returned time, whatever stop time was committed
\* before.
C21_ForcedStopCommitted ==
    (call.fn = "forceFadeOut" /\ result.fn = "forceFadeOut") =>
        /\ result.endTime = Max(call.now + MIN_FORCE_FADE, call.now + call.release)
        /\ result.osc.scheduledStop = result.endTime

\* C22: play(base, start) on a synth with at least one partial schedules the
\* fade-out of partial idx at max(start, start + BASE_RELEASE -
\* idx * RELEASE_STAGGER), commits the hard stop of every oscillator at
\* start + BASE_RELEASE whatever idx is, and returns start + BASE_RELEASE.
C22_PlaySchedule ==
    (call.fn = "envelope" /\ result.fn = "envelope" /\ call.n >= 1) =>
        /\ Len(result.envelopes) = call.n
        /\ \A k \in 1..Len(result.envelopes) :
              LET staggered == call.startTime + BASE_RELEASE - (k - 1) * RELEASE_STAGGER
              IN /\ result.envelopes[k].releaseMoment >= call.startTime
                 /\ result.envelopes[k].releaseMoment >= staggered
                 /\ result.envelopes[k].releaseMoment \in {call.startTime, staggered}
                 /\ result.envelopes[k].stop = call.startTime + BASE_RELEASE
        /\ result.stopTime = call.startTime + BASE_RELEASE

C22_Witness ==
    /\ call.fn = "envelope" /\ result.fn = "envelope"
    /\ call.n = MaxSynthPartials /\ call.startTime > 0
    /\ result.envelopes[2].releaseMoment = call.startTime + BASE_RELEASE - RELEASE_STAGGER
    /\ result.envelopes[MaxSynthPartials].releaseMoment = call.startTime

\* C30 as stated: for every partial index of a played synth, for any number
\* of partials, the envelope times are ordered: the fade-in ends (start + 2 ms)
\* strictly before the fade-out target time, which is at or before the hard
\* stop (start + BASE_RELEASE).
C30_EnvelopeOrder ==
    (call.fn = "envelope" /\ result.fn = "envelope") =>
        \A k \in 1..Len(result.envelopes) :
            /\ result.envelopes[k].fadeInEnd = call.startTime + BASE_FADE_IN
            /\ result.envelopes[k].fadeInEnd < result.envelopes[k].releaseMoment
            /\ result.envelopes[k].releaseMoment <= result.envelopes[k].stop
            /\ result.envelopes[k].stop = call.startTime + BASE_RELEASE

\* C25: the list extractConsonantMinima returns is sorted in ascending order
\* of value and has at most `limit` entries; when more than `limit` cells
\* qualify, the returned cells are the lowest ones: no qualifying cell left
\* out has a value strictly below that of a returned cell.
C25_SortedAndCut ==
    (call.fn \in {"minima", "wellMinima"} /\ result.fn = call.fn) =>
        LET values == call.values
            last == Cardinality(DOMAIN values) - 1
            qualifies(i, j) ==
                /\ values[i][j] <= call.threshold
                /\ \A a \in (i - 1)..(i + 1), b \in (j - 1)..(j + 1) :
                      values[i][j] <= values[a][b]
            returned(i, j) ==
                \E k \in 1..Len(result.minima) :
                    result.minima[k].i = i /\ result.minima[k].j = j
        IN /\ \A k \in 1..(Len(result.minima) - 1) :
                 result.minima[k].value <= result.minima[k + 1].value
           /\ Len(result.minima) <= call.limit
           /\ \A i, j \in 1..(last - 1) :
                 (qualifies(i, j) /\ ~returned(i, j)) =>
                     /\ Len(result.minima) = call.limit
                     /\ \A k \in 1..Len(result.minima) :
                           ~(values[i][j] < result.minima[k].value)

C25_Witness ==
    /\ call.fn = "wellMinima" /\ result.fn = "wellMinima"
    /\ call.limit = 2
    /\ call.values[1][1] = 2 /\ call.values[1][3] = 1
    /\ call.values[3][1] = 2 /\ call.values[3][3] = 0
    /\ call.threshold = 2
    /\ Len(result.minima) = 2
    /\ result.minima[1].i = 3 /\ result.minima[1].j = 3
    /\ result.minima[2].i = 1 /\ result.minima[2].j = 3

\* C23: forceSilence(now) returns the maximum over its oscillators of the end
\* time each forced fade-out used, which is max(now + 10 ms, now +
\* QUICK_RELEASE - idx * QUICK_STAGGER) for partial idx; for a synth with at
\* least one oscillator that is now + QUICK_RELEASE, for a synth with none it
\* is now.
C23_ForceSilenceEnd ==
    (call.fn = "forceSilence" /\ result.fn = "forceSilence") =>
        /\ Len(result.ends) = call.n
        /\ \A k \in 1..Len(result.ends) :
              /\ result.ends[k] =
                    Max(call.now + MIN_FORCE_FADE,
                        call.now + QUICK_RELEASE - (k - 1) * QUICK_STAGGER)
              /\ result.ends[k] <= result.latest
        /\ call.n >= 1 =>
              /\ \E k \in 1..Len(result.ends) : result.ends[k] = result.latest
              /\ result.latest = call.now + QUICK_RELEASE
        /\ call.n = 0 => result.latest = call.now

C23_Witness ==
    /\ call.fn = "forceSilence" /\ result.fn = "forceSilence"
    /\ call.n = 6 /\ call.now > 0
    /\ result.ends[6] = call.now + MIN_FORCE_FADE
    /\ result.latest = call.now + QUICK_RELEASE

\* C24: a start (or stop) that the driver rejects with InvalidStateError
\* (already started, or never started) returns normally to the caller and
\* leaves the committed stop time of the oscillator unchanged; any other
\* driver error raised by start or stop reaches the caller.
C24_DriverErrors ==
    (call.fn = "driver" /\ result.fn = "driver") =>
        LET reached == call.op = "start" \/ DriverStopCalled(call.osc, call.time)
        IN /\ (reached /\ call.error = "InvalidStateError") =>
                 /\ result.out.thrown = "none"
                 /\ result.out.osc.scheduledStop = call.osc.scheduledStop
           /\ (reached /\ call.error \notin {"none", "InvalidStateError"}) =>
                 result.out.thrown = call.error

C24_Witness ==
    /\ call.fn = "driver" /\ result.fn = "driver"
    /\ call.op = "start" /\ call.error = "InvalidStateError"
    /\ call.osc.started /\ call.osc.scheduledStop = MaxTime
    /\ result.out.thrown = "none"
    /\ result.out.osc.scheduledStop = MaxTime

\* C26: when two play requests of one instance overlap (the second is issued
\* while the first is suspended at the resume of the audio context), then
\* after both have completed the synths that are not force-silenced are those
\* of one request, the one whose resume completed last, which need not be the
\* request issued last: a request with a non-empty partial list that resumes
\* leaves its own synths, and only them, not force-silenced.
C26_LastResumedSounds ==
    [][\A p \in pending :
          (p \notin pending' /\ p.n > 0) =>
              /\ Sounding(p.inst)' # {}
              /\ \A v \in Sounding(p.inst)' : v.req = p.req]_vars

C26_Witness ==
    /\ pending = {}
    /\ lastReq["A"] = 2
    /\ Sounding("A") # {}
    /\ \A v \in Sounding("A") : v.req = 1
    /\ \E v \in Voices("A") : v.req = 2 /\ v.forced

\* C29: a play request whose partial list is empty publishes its stop-others
\* message and acquires the audio context, but returns before calling
\* stopAll: the active set of the instance, the envelopes and stop times of
\* its synths and its cleanup timers are left as they were, so the synths an
\* earlier request started are not force-silenced.
C29_EmptyRequestFrame ==
    [][/\ \A p \in pending :
             (p \notin pending' /\ p.n = 0) => UNCHANGED <<active, timers>>
       /\ \A i \in Instances :
             (lastReq'[i] # lastReq[i]) =>
                 /\ UNCHANGED <<active, timers>>
                 /\ \A l \in mounted : SOURCE(i) \in inbox'[l]
                 /\ (\E p \in pending' \ pending : p.inst = i) => audioRef'[i] > 0]_vars

C29_Witness ==
    /\ pending = {}
    /\ lastReq["A"] = 2
    /\ \E v \in Sounding("A") : v.req = 1 /\ v.epoch = 1
    /\ \A v \in Voices("A") : v.req = 1

\* C27: the audio clock and the timer clock advancing together, the cleanup
\* timer of a synth never fires before the latest committed stop time of its
\* oscillators: the natural timer is due 50 ms after the hard stop, a forced
\* timer 20 ms after the latest forced end time, so no synth is disconnected
\* while one of its oscillators is still scheduled to run, after any sequence
\* of play and stopAll calls.
C27_TimerAfterStop ==
    \A t \in timers : \A v \in Voices(t.inst) :
        v.id = t.v =>
            \A j \in 1..Len(v.oscs) :
                LET stop == v.oscs[j].scheduledStop
                    pad == IF v.forced THEN FORCED_CLEANUP_PAD ELSE NATURAL_CLEANUP_PAD
                IN stop # Null =>
                      /\ stop <= t.left
                      /\ stop > 0 => stop + pad <= t.left
                      /\ (stop > 0 /\ ~v.forced) => stop + pad = t.left

C27_Witness ==
    \E t \in timers : \E v \in Voices(t.inst) :
        /\ v.id = t.v /\ v.forced
        /\ t.left = 0
        /\ Len(v.oscs) > 0
        /\ \A j \in 1..Len(v.oscs) : v.oscs[j].scheduledStop = 0

\* C28 as stated: in every state in which no play or stopAll body is in the
\* middle of its execution, each synth of the active set has exactly one
\* pending cleanup timer and every pending cleanup timer belongs to a synth of
\* the active set, also after a play request in which a driver call on a new
\* synth raised an error.
C28_OneTimerEach ==
    /\ \A i \in Instances : \A v \in Voices(i) :
          Cardinality({t \in timers : t.inst = i /\ t.v = v.id}) = 1
    /\ \A t \in timers : \E v \in Voices(t.inst) : v.id = t.v

====
